---- MODULE Spec2Model ----
(***************************************************************************)
(* The in-memory hierarchical file system of hw2&3: the class Memory of    *)
(* hierarchicalBlockFS.py (file content kept as a list of BLOCKSIZE-sized  *)
(* chunks) and of hierarchicalFS.py (file content kept as one byte        *)
(* string).  Both classes share the namespace code; they differ in read,   *)
(* write, truncate and in the default value of the content store.          *)
(*                                                                         *)
(* The metadata tree self.files['/'] is the variable files, the content    *)
(* store self.data is the variable data.  A Python dict is a function over *)
(* Names whose absent keys hold NoKey.  A path is the sequence of its      *)
(* non-empty components.  Integer division is Python 2 floor division.     *)
(***************************************************************************)
EXTENDS Integers, Sequences, FiniteSets, TLC

VARIABLES impl, files, data, fd, last

vars == <<impl, files, data, fd, last>>

(***************************************************************************)
(* Bounds of the exploration.                                              *)
(***************************************************************************)
\* Chunk size.  The source sets 512; the chunk arithmetic is uniform in it,
\* and the model explores it scaled down so that every offset, remainder
\* and chunk count within the bounds is enumerated.
BLOCKSIZE == 2
\* Longest content a write may build.
MaxLen == 6
\* Longest data argument of write.
MaxData == 2
\* Largest offset / length argument.
MaxOff == 4
\* Largest size argument of read.
MaxSize == 5
\* Largest link count a directory may be driven to.
MaxNlink == 4
\* Largest file handle create/open hand out.
MaxFd == 2
\* Deepest nesting of directories a rename may build (the root counts).
MaxDepth == 3

Names == {"a", "b"}
Paths == {<<n>> : n \in Names} \cup {<<n, m>> : n, m \in Names}
AllPaths == {<<>>} \cup Paths

S_IFDIR == 16384
S_IFREG == 32768
S_IFLNK == 40960

Min(x, y) == IF x < y THEN x ELSE y
Max(x, y) == IF x > y THEN x ELSE y

\* Python s[lo:hi] and s[lo:] for 0 <= lo, 0 <= hi.
Slice(s, lo, hi) ==
  IF lo >= Min(hi, Len(s)) THEN <<>> ELSE SubSeq(s, lo + 1, Min(hi, Len(s)))
SliceFrom(s, lo) == Slice(s, lo, Len(s))

\* An absent dict key.
NoKey == [nokey |-> TRUE]
Has(x) == "nokey" \notin DOMAIN x
EmptyDict == [n \in Names |-> NoKey]

\* Values of the content store: a chunk list, a string, a nested defaultdict.
List(c) == [chunks |-> c]
Str(s) == [str |-> s]
Dict(e) == [ents |-> e]
IsList(v) == "chunks" \in DOMAIN v
IsStr(v) == "str" \in DOMAIN v
IsDict(v) == "ents" \in DOMAIN v

\* defaultdict(list) in hierarchicalBlockFS.py, defaultdict(bytes) in
\* hierarchicalFS.py: the value a missing key springs into.
Default == IF impl = "block" THEN List(<<>>) ELSE Str(<<>>)

\* The outcome of a step that raised, and of one that yielded v.
Raise(e) == [raised |-> e]
Ok(v) == [raised |-> "none", val |-> v]
Raised(r) == "raised" \in DOMAIN r /\ r.raised # "none"

(***************************************************************************)
(* Path resolution in the metadata tree.                                   *)
(***************************************************************************)
IsDirNode(p) == "files" \in DOMAIN p

\* traverse(path): p = p['files'][i] for every component; a missing 'files'
\* key or a missing child is a KeyError.
RECURSIVE traverse(_, _)
traverse(p, path) ==
  IF path = <<>> THEN p
  ELSE IF ~IsDirNode(p) THEN Raise("KeyError")
  ELSE IF ~Has(p.files[Head(path)]) THEN Raise("KeyError")
  ELSE traverse(p.files[Head(path)], Tail(path))

Front(path) == SubSeq(path, 1, Len(path) - 1)
Last(path) == path[Len(path)]

\* traverseparent(path): the node of path[:rfind('/')]; the child name is
\* Last(path).
traverseparent(p, path) == traverse(p, Front(path))

\* The tree after the node at path (which resolves) is replaced by n: the
\* effect of mutating the dict traverse returned.
RECURSIVE SetNode(_, _, _)
SetNode(p, path, n) ==
  IF path = <<>> THEN n
  ELSE [p EXCEPT !.files[Head(path)] = SetNode(@, Tail(path), n)]

(***************************************************************************)
(* Path resolution in the content store.  Every dict of the store is a     *)
(* defaultdict: indexing a missing key inserts the default value, so a     *)
(* traversal may change the store.  Indexing a list or a string with a     *)
(* name is a TypeError.  The result carries the store as it is left.       *)
(***************************************************************************)
RECURSIVE traverse_tdata(_, _)
traverse_tdata(p, path) ==
  IF path = <<>> THEN [raised |-> "none", val |-> p, st |-> p]
  ELSE IF ~IsDict(p) THEN [raised |-> "TypeError", val |-> NoKey, st |-> p]
  ELSE LET i == Head(path)
           c == IF Has(p.ents[i]) THEN p.ents[i] ELSE Default
           r == traverse_tdata(c, Tail(path))
       IN [raised |-> r.raised, val |-> r.val,
           st |-> Dict([p.ents EXCEPT ![i] = r.st])]

traverseparent_tdata(p, path) == traverse_tdata(p, Front(path))

\* The store after the value at path (which resolves) is replaced by v.
RECURSIVE SetData(_, _, _)
SetData(p, path, v) ==
  IF path = <<>> THEN v
  ELSE Dict([p.ents EXCEPT ![Head(path)] = SetData(@, Tail(path), v)])

\* st_mode & 0o770000 for the modes the model builds (below 2^18).
FileType(mode) == (mode \div 4096) * 4096

\* The store value at path, NoKey when a key on the way is missing.
RECURSIVE Peek(_, _)
Peek(p, path) ==
  IF path = <<>> THEN p
  ELSE IF ~IsDict(p) THEN NoKey
  ELSE IF ~Has(p.ents[Head(path)]) THEN NoKey
  ELSE Peek(p.ents[Head(path)], Tail(path))

\* The number of directory levels below the tree p / the store value p.
RECURSIVE Depth(_)
Depth(p) ==
  IF ~IsDirNode(p) THEN 0
  ELSE LET sub == {Depth(p.files[n]) : n \in {m \in Names : Has(p.files[m])}}
       IN IF sub = {} THEN 1
          ELSE 1 + CHOOSE x \in sub : \A y \in sub : y <= x

RECURSIVE DataDepth(_)
DataDepth(p) ==
  IF ~IsDict(p) THEN 0
  ELSE LET sub == {DataDepth(p.ents[n]) :
                     n \in {m \in Names : Has(p.ents[m])}}
       IN IF sub = {} THEN 1
          ELSE 1 + CHOOSE x \in sub : \A y \in sub : y <= x

\* Every link count of the tree p is within the explored range.
RECURSIVE NlinkOK(_)
NlinkOK(p) ==
  /\ p.st_nlink <= MaxNlink
  /\ IsDirNode(p) => \A n \in Names : Has(p.files[n]) => NlinkOK(p.files[n])

(***************************************************************************)
(* Chunk arithmetic of hierarchicalBlockFS.py.  A chunk list is a sequence *)
(* of byte strings; list index k of the source is element k + 1.           *)
(***************************************************************************)
\* d[from] + d[from+1] + ... + d[to-1]
RECURSIVE Concat(_, _, _)
Concat(d, from, to) ==
  IF from >= to THEN <<>> ELSE d[from + 1] \o Concat(d, from + 1, to)

\* The logical content of a chunk list.
Content(d) == Concat(d, 0, Len(d))

\* data_str cut into full chunks followed by the remainder (possibly empty).
\* Re-chunking that folds the remainder into the last full chunk.
Rechunk_folded(s, n) ==
  IF n = 0 THEN <<s>>
  ELSE [i \in 1..(n - 1) |-> Slice(s, (i - 1) * BLOCKSIZE, i * BLOCKSIZE)]
         \o <<SliceFrom(s, (n - 1) * BLOCKSIZE)>>

Rechunk(s, n) ==
  [i \in 1..n |-> Slice(s, (i - 1) * BLOCKSIZE, i * BLOCKSIZE)]
    \o <<SliceFrom(s, n * BLOCKSIZE)>>

\* read(): the three size conditions.  IndexError when a chunk index the
\* code uses is not in the list.
read_blocks(d, size, offset) ==
  LET offset_block == offset \div BLOCKSIZE
      reminder_len == offset % BLOCKSIZE
      room == BLOCKSIZE - reminder_len
      full_blocks_num == (size - room) \div BLOCKSIZE
  IN IF offset_block >= Len(d) THEN Raise("IndexError")
     ELSE IF size <= room
       THEN Ok(Slice(d[offset_block + 1], reminder_len, reminder_len + size))
     ELSE IF size <= 2 * BLOCKSIZE - reminder_len
       THEN IF offset_block + 1 > Len(d)
              THEN Ok(SliceFrom(d[offset_block + 1], reminder_len))
            ELSE IF offset_block + 1 >= Len(d) THEN Raise("IndexError")
            ELSE Ok(SliceFrom(d[offset_block + 1], reminder_len)
                      \o Slice(d[offset_block + 2], 0, size - room))
     ELSE IF offset_block + full_blocks_num + 1 > Len(d)
       THEN Ok(SliceFrom(d[offset_block + 1], reminder_len)
                 \o Concat(d, offset_block + 1, Len(d)))
     ELSE IF offset_block + full_blocks_num + 1 >= Len(d)
       THEN Raise("IndexError")
     ELSE Ok(SliceFrom(d[offset_block + 1], reminder_len)
               \o Concat(d, offset_block + 1,
                         offset_block + full_blocks_num + 1)
               \o Slice(d[offset_block + full_blocks_num + 2], 0,
                        size - full_blocks_num * BLOCKSIZE - room))

\* write() into an empty chunk list: the offset is not used.
\* write() into an empty chunk list that stores data as one chunk.
write_new_whole(wdata) == <<wdata>>

write_new(wdata) == Rechunk(wdata, Len(wdata) \div BLOCKSIZE)

\* write() into a non-empty chunk list: data_str, or IndexError when
\* data_blocks[offset_block] does not exist.
\* write() that starts data_str at the chunk written to: the loop of lines
\* 256-258 missing.
write_splice_headless(data_blocks, wdata, offset) ==
  LET offset_block == offset \div BLOCKSIZE
      reminder_len == offset % BLOCKSIZE
  IN IF offset_block >= Len(data_blocks) THEN Raise("IndexError")
     ELSE LET blk == data_blocks[offset_block + 1]
          IN IF Len(blk) < reminder_len THEN Ok(blk \o wdata)
             ELSE Ok(Slice(blk, 0, reminder_len) \o wdata
                       \o SliceFrom(blk, reminder_len)
                       \o Concat(data_blocks, offset_block,
                                 Len(data_blocks)))

write_splice(data_blocks, wdata, offset) ==
  LET offset_block == offset \div BLOCKSIZE
      reminder_len == offset % BLOCKSIZE
  IN IF offset_block >= Len(data_blocks) THEN Raise("IndexError")
     ELSE LET head == Concat(data_blocks, 0, offset_block)
              blk == data_blocks[offset_block + 1]
          IN IF Len(blk) < reminder_len THEN Ok(head \o blk \o wdata)
             ELSE Ok(head \o Slice(blk, 0, reminder_len) \o wdata
                       \o SliceFrom(blk, reminder_len)
                       \o Concat(data_blocks, offset_block,
                                 Len(data_blocks)))

\* while (i < len(d)): del d[i]; i = i + 1
RECURSIVE DelLoop(_, _)
DelLoop(d, i) ==
  IF i < Len(d)
    THEN DelLoop(SubSeq(d, 1, i) \o SubSeq(d, i + 2, Len(d)), i + 1)
  ELSE d

\* truncate() on the chunk list: the list it leaves and the length it
\* stores in st_size, or IndexError (the list is untouched by then).
\* truncate that cuts the chunk list down to length whenever length is
\* below the content length.
truncate_blocks_cut(d, length) ==
  IF Len(d) = 0 THEN Raise("IndexError")
  ELSE IF length < Len(Content(d))
    THEN [raised |-> "none",
          chunks |-> Rechunk(Slice(Content(d), 0, length),
                             length \div BLOCKSIZE),
          length |-> length]
  ELSE IF length \div BLOCKSIZE >= Len(d) THEN Raise("IndexError")
  ELSE [raised |-> "none", chunks |-> d, length |-> length]

truncate_blocks(d, length) ==
  IF Len(d) = 0 THEN Raise("IndexError")
  ELSE LET data_len == (Len(d) - 1) * BLOCKSIZE + Len(d[Len(d)])
           offset_block == length \div BLOCKSIZE
           reminder_len == length % BLOCKSIZE
       IN IF length < data_len
            THEN [raised |-> "none", chunks |-> d, length |-> 0]
          ELSE IF offset_block >= Len(d) THEN Raise("IndexError")
          ELSE [raised |-> "none",
                chunks |->
                  DelLoop([d EXCEPT ![offset_block + 1] =
                             Slice(@, 0, reminder_len)], offset_block + 1),
                length |-> length]

(***************************************************************************)
(* Nodes of the metadata tree: the dicts the source builds.  time() is     *)
(* the argument now.                                                       *)
(***************************************************************************)
RootNode(now) ==
  [st_mode |-> S_IFDIR + 493, st_ctime |-> now, st_mtime |-> now,
   st_atime |-> now, st_nlink |-> 2, files |-> EmptyDict]
FileNode(mode, now) ==
  [st_mode |-> S_IFREG + mode, st_nlink |-> 1, st_size |-> 0,
   st_ctime |-> now, st_mtime |-> now, st_atime |-> now]
DirNode(mode, now) ==
  [st_mode |-> S_IFDIR + mode, st_nlink |-> 2, st_size |-> 0,
   st_ctime |-> now, st_mtime |-> now, st_atime |-> now, files |-> EmptyDict]
LinkNode(source) ==
  [st_mode |-> S_IFLNK + 511, st_nlink |-> 1, st_size |-> Len(source)]

Impls == {"block", "flat"}
Modes == {420}
Times == {1}
Datas == {[i \in 1..n |-> i] : n \in 0..MaxData}
Offsets == 0..MaxOff
Sizes == 0..MaxSize

\* The record of the latest call: its arguments, what it returned or
\* raised, and the state it started from.
Call(op, path, new, wdata, offset, size, ret, err) ==
  [op |-> op, path |-> path, new |-> new, wdata |-> wdata,
   offset |-> offset, size |-> size, ret |-> ret, err |-> err,
   pfiles |-> files, pdata |-> data]

\* __init__
Init ==
  /\ impl \in Impls
  /\ files \in {RootNode(now) : now \in Times}
  /\ data = Dict(EmptyDict)
  /\ fd = 0
  /\ last = [op |-> "init", path |-> <<>>, new |-> <<>>, wdata |-> <<>>,
             offset |-> 0, size |-> 0, ret |-> 0, err |-> "none",
             pfiles |-> files, pdata |-> data]

\* __init__ of hierarchicalBlockFS.py alone.
InitBlock == Init /\ impl = "block"

\* A store value read, write and truncate are modelled on: the kind the
\* class keeps file content in.
IsContent(v) == IF impl = "block" THEN IsList(v) ELSE IsStr(v)

\* The logical content of a store value of that kind.
Logical(v) == IF IsList(v) THEN Content(v.chunks) ELSE v.str

(***************************************************************************)
(* create(path, mode)                                                      *)
(***************************************************************************)
create(path, mode, now) ==
  LET p == traverseparent(files, path)
      tar == Last(path)
  IN /\ fd < MaxFd
     /\ impl' = impl
     /\ data' = data
     /\ IF Raised(p) \/ ~IsDirNode(p)
          THEN /\ files' = files
               /\ fd' = fd
               /\ last' = Call("create", path, <<>>, <<>>, 0, mode, 0,
                               "KeyError")
          ELSE /\ files' = SetNode(files, Front(path),
                             [p EXCEPT !.files[tar] = FileNode(mode, now)])
               /\ fd' = fd + 1
               /\ last' = Call("create", path, <<>>, <<>>, 0, mode, fd + 1,
                               "none")

(***************************************************************************)
(* write(path, data, offset, fh)                                           *)
(***************************************************************************)
\* The chunk list or string write stores, given the value v it finds.
write_value(v, wdata, offset) ==
  IF impl = "block"
    THEN IF Len(v.chunks) = 0 THEN Ok(List(write_new(wdata)))
         ELSE LET w == write_splice(v.chunks, wdata, offset)
              IN IF Raised(w) THEN w
                 ELSE Ok(List(Rechunk(w.val, Len(w.val) \div BLOCKSIZE)))
  ELSE Ok(Str(Slice(v.str, 0, offset) \o wdata))

write(path, wdata, offset) ==
  LET p == traverse(files, path)
      r == traverseparent_tdata(data, path)
      d1 == Last(path)
      v == IF Has(r.val.ents[d1]) THEN r.val.ents[d1] ELSE Default
      st == SetData(r.st, path, v)
      w == write_value(v, wdata, offset)
  IN /\ impl' = impl
     /\ fd' = fd
     /\ IF Raised(p)
          THEN /\ UNCHANGED <<files, data>>
               /\ last' = Call("write", path, <<>>, wdata, offset, 0, 0,
                               "KeyError")
        ELSE IF Raised(r) \/ ~IsDict(r.val)
          THEN /\ files' = files
               /\ data' = r.st
               /\ last' = Call("write", path, <<>>, wdata, offset, 0, 0,
                               "TypeError")
        ELSE /\ IsContent(v)
             /\ IF Raised(w)
                  THEN /\ files' = files
                       /\ data' = st
                       /\ last' = Call("write", path, <<>>, wdata, offset, 0,
                                       0, w.raised)
                  ELSE /\ Len(Logical(w.val)) <= MaxLen
                       /\ data' = SetData(st, path, w.val)
                       /\ files' = SetNode(files, path,
                                     [p EXCEPT !.st_size = Len(Logical(w.val))])
                       /\ last' = Call("write", path, <<>>, wdata, offset, 0,
                                       Len(wdata), "none")

(***************************************************************************)
(* read(path, size, offset, fh)                                            *)
(***************************************************************************)
read_value(v, size, offset) ==
  IF impl = "block" THEN read_blocks(v.chunks, size, offset)
  ELSE Ok(Slice(v.str, offset, offset + size))

read(path, size, offset) ==
  LET r == traverse_tdata(data, path)
      o == read_value(r.val, size, offset)
  IN /\ UNCHANGED <<impl, files, fd>>
     /\ data' = r.st
     /\ IF Raised(r)
          THEN last' = Call("read", path, <<>>, <<>>, offset, size, 0,
                            "TypeError")
        ELSE /\ IsContent(r.val)
             /\ IF Raised(o)
                  THEN last' = Call("read", path, <<>>, <<>>, offset, size, 0,
                                    o.raised)
                  ELSE last' = Call("read", path, <<>>, <<>>, offset, size,
                                    o.val, "none")

(***************************************************************************)
(* truncate(path, length, fh)                                              *)
(***************************************************************************)
\* What truncate does to the store value v: the value it leaves and the
\* length it goes on to store.  hierarchicalFS.py slices into a local only.
truncate_value(v, length) ==
  IF impl = "block"
    THEN LET t == truncate_blocks(v.chunks, length)
         IN IF Raised(t) THEN t
            ELSE [raised |-> "none", val |-> List(t.chunks),
                  length |-> t.length]
  ELSE [raised |-> "none", val |-> v, length |-> length]

truncate(path, length) ==
  LET r == traverse_tdata(data, path)
      t == truncate_value(r.val, length)
      p == traverse(files, path)
  IN /\ UNCHANGED <<impl, fd>>
     /\ IF Raised(r)
          THEN /\ files' = files
               /\ data' = r.st
               /\ last' = Call("truncate", path, <<>>, <<>>, length, 0, 0,
                               "TypeError")
        ELSE /\ IsContent(r.val)
             /\ IF Raised(t)
                  THEN /\ files' = files
                       /\ data' = r.st
                       /\ last' = Call("truncate", path, <<>>, <<>>, length,
                                       0, 0, t.raised)
                ELSE IF Raised(p)
                  THEN /\ files' = files
                       /\ data' = SetData(r.st, path, t.val)
                       /\ last' = Call("truncate", path, <<>>, <<>>, length,
                                       0, 0, "KeyError")
                ELSE /\ data' = SetData(r.st, path, t.val)
                     /\ files' = SetNode(files, path,
                                   [p EXCEPT !.st_size = t.length])
                     /\ last' = Call("truncate", path, <<>>, <<>>, length,
                                     0, 0, "none")

(***************************************************************************)
(* mkdir(path, mode)                                                       *)
(***************************************************************************)
mkdir(path, mode, now) ==
  LET p == traverseparent(files, path)
      tar == Last(path)
      r == traverseparent_tdata(data, path)
  IN /\ UNCHANGED <<impl, fd>>
     /\ IF Raised(p) \/ ~IsDirNode(p)
          THEN /\ UNCHANGED <<files, data>>
               /\ last' = Call("mkdir", path, <<>>, <<>>, 0, mode, 0,
                               "KeyError")
          ELSE /\ p.st_nlink < MaxNlink
               /\ files' = SetNode(files, Front(path),
                             [p EXCEPT !.files[tar] = DirNode(mode, now),
                                       !.st_nlink = @ + 1])
               /\ IF Raised(r) \/ ~IsDict(r.val)
                    THEN /\ data' = r.st
                         /\ last' = Call("mkdir", path, <<>>, <<>>, 0, mode,
                                         0, "TypeError")
                    ELSE /\ data' = SetData(r.st, path, Dict(EmptyDict))
                         /\ last' = Call("mkdir", path, <<>>, <<>>, 0, mode,
                                         0, "none")

(***************************************************************************)
(* rmdir(path)                                                             *)
(***************************************************************************)
\* len(d) of a dict.
DictLen(e) == Cardinality({n \in Names : Has(e[n])})

\* rmdir without the emptiness test of line 174.
rmdir_ungated(path) ==
  LET p == traverseparent(files, path)
      tar == Last(path)
  IN /\ UNCHANGED <<impl, fd, data>>
     /\ IF \/ Raised(p) \/ ~IsDirNode(p) \/ ~Has(p.files[tar])
           \/ ~IsDirNode(p.files[tar])
          THEN /\ files' = files
               /\ last' = Call("rmdir", path, <<>>, <<>>, 0, 0, 0, "KeyError")
          ELSE /\ files' = SetNode(files, Front(path),
                             [p EXCEPT !.files[tar] = NoKey,
                                       !.st_nlink = @ - 1])
               /\ last' = Call("rmdir", path, <<>>, <<>>, 0, 0, 0, "none")

rmdir(path) ==
  LET p == traverseparent(files, path)
      tar == Last(path)
  IN /\ UNCHANGED <<impl, fd, data>>
     /\ IF \/ Raised(p) \/ ~IsDirNode(p) \/ ~Has(p.files[tar])
           \/ ~IsDirNode(p.files[tar])
          THEN /\ files' = files
               /\ last' = Call("rmdir", path, <<>>, <<>>, 0, 0, 0, "KeyError")
        ELSE IF DictLen(p.files[tar].files) > 0
          THEN /\ files' = files
               /\ last' = Call("rmdir", path, <<>>, <<>>, 0, 0, 0,
                               "ENOTEMPTY")
        ELSE /\ files' = SetNode(files, Front(path),
                           [p EXCEPT !.files[tar] = NoKey,
                                     !.st_nlink = @ - 1])
             /\ last' = Call("rmdir", path, <<>>, <<>>, 0, 0, 0, "none")

(***************************************************************************)
(* unlink(path)                                                            *)
(***************************************************************************)
unlink(path) ==
  LET p == traverseparent(files, path)
      tar == Last(path)
  IN /\ UNCHANGED <<impl, fd, data>>
     /\ IF Raised(p) \/ ~IsDirNode(p) \/ ~Has(p.files[tar])
          THEN /\ files' = files
               /\ last' = Call("unlink", path, <<>>, <<>>, 0, 0, 0,
                               "KeyError")
          ELSE /\ files' = SetNode(files, Front(path),
                             [p EXCEPT !.files[tar] = NoKey])
               /\ last' = Call("unlink", path, <<>>, <<>>, 0, 0, 0, "none")

(***************************************************************************)
(* symlink(target, source)                                                 *)
(***************************************************************************)
symlink(target, source) ==
  LET p == traverseparent(files, target)
      tar == Last(target)
      r == traverseparent_tdata(data, target)
  IN /\ UNCHANGED <<impl, fd>>
     /\ IF Raised(p) \/ ~IsDirNode(p)
          THEN /\ UNCHANGED <<files, data>>
               /\ last' = Call("symlink", target, <<>>, source, 0, 0, 0,
                               "KeyError")
          ELSE /\ files' = SetNode(files, Front(target),
                             [p EXCEPT !.files[tar] = LinkNode(source)])
               /\ IF Raised(r) \/ ~IsDict(r.val)
                    THEN /\ data' = r.st
                         /\ last' = Call("symlink", target, <<>>, source, 0,
                                         0, 0, "TypeError")
                    ELSE /\ data' = SetData(r.st, target, Str(source))
                         /\ last' = Call("symlink", target, <<>>, source, 0,
                                         0, 0, "none")

(***************************************************************************)
(* rename(old, new)                                                        *)
(***************************************************************************)
IsPrefix(a, b) == Len(a) <= Len(b) /\ SubSeq(b, 1, Len(a)) = a

\* Lines 162-167: the metadata tree rename leaves and what it raised.  po
\* and pn are references taken before any change: once the moved node is
\* popped, a pn that lies inside it is no longer part of the tree.
rename_files(f, old, new) ==
  LET po == traverseparent(f, old)
      pn == traverseparent(f, new)
      po1 == Last(old)
      pn1 == Last(new)
  IN IF Raised(po) \/ Raised(pn) THEN [raised |-> "KeyError", f |-> f]
     ELSE IF ~IsDirNode(po) \/ ~Has(po.files[po1])
       THEN [raised |-> "KeyError", f |-> f]
     ELSE
       LET isdir == FileType(po.files[po1].st_mode) = S_IFDIR
           f1 == IF isdir
                   THEN SetNode(f, Front(old), [po EXCEPT !.st_nlink = @ - 1])
                 ELSE f
           f2 == IF isdir
                   THEN SetNode(f1, Front(new),
                          [traverse(f1, Front(new)) EXCEPT !.st_nlink = @ + 1])
                 ELSE f1
           node == traverse(f2, old)
           f3 == SetNode(f2, Front(old),
                   [traverse(f2, Front(old)) EXCEPT !.files[po1] = NoKey])
           pnd == traverse(f2, Front(new))
       IN IF ~IsDirNode(pnd) THEN [raised |-> "KeyError", f |-> f3]
          ELSE IF IsPrefix(old, Front(new)) THEN [raised |-> "none", f |-> f3]
          ELSE [raised |-> "none",
                f |-> SetNode(f3, Front(new),
                        [traverse(f3, Front(new)) EXCEPT !.files[pn1] = node])]

\* Lines 168-170: the content store rename leaves and what it raised.
\* rename that moves the node and leaves the content store alone: lines
\* 168-170 missing.
rename_data_left(d, old, new) == [raised |-> "none", d |-> d]

rename_data(d, old, new) ==
  LET ro == traverseparent_tdata(d, old)
      rn == traverseparent_tdata(ro.st, new)
      do1 == Last(old)
      dn1 == Last(new)
      do == Peek(rn.st, Front(old))
      dn == Peek(rn.st, Front(new))
  IN IF Raised(ro) THEN [raised |-> "TypeError", d |-> ro.st]
     ELSE IF Raised(rn) THEN [raised |-> "TypeError", d |-> rn.st]
     ELSE IF ~IsDict(do) THEN [raised |-> "TypeError", d |-> rn.st]
     ELSE IF ~Has(do.ents[do1]) THEN [raised |-> "KeyError", d |-> rn.st]
     ELSE
       LET v == do.ents[do1]
           d3 == SetData(rn.st, old, NoKey)
       IN IF ~IsDict(dn) THEN [raised |-> "TypeError", d |-> d3]
          ELSE IF IsPrefix(old, Front(new)) THEN [raised |-> "none", d |-> d3]
          ELSE [raised |-> "none", d |-> SetData(d3, new, v)]

rename(old, new) ==
  LET rf == rename_files(files, old, new)
      rd == rename_data(data, old, new)
  IN /\ UNCHANGED <<impl, fd>>
     /\ NlinkOK(rf.f)
     /\ Depth(rf.f) <= MaxDepth
     /\ Raised(rf) \/ DataDepth(rd.d) <= MaxDepth
     /\ files' = rf.f
     /\ IF Raised(rf)
          THEN /\ data' = data
               /\ last' = Call("rename", old, new, <<>>, 0, 0, 0, rf.raised)
          ELSE /\ data' = rd.d
               /\ last' = Call("rename", old, new, <<>>, 0, 0, 0, rd.raised)

(***************************************************************************)
(* Lookups and metadata updates.                                           *)
(***************************************************************************)
\* getattr(path): the only operation that turns the KeyError of a failed
\* traversal into FuseOSError(ENOENT).
getattr(path) ==
  LET p == traverse(files, path)
  IN /\ UNCHANGED <<impl, fd, files, data>>
     /\ IF Raised(p)
          THEN last' = Call("getattr", path, <<>>, <<>>, 0, 0, 0, "ENOENT")
          ELSE last' = Call("getattr", path, <<>>, <<>>, 0, 0,
                            [attr \in DOMAIN p \ {"files"} |-> p[attr]],
                            "none")

\* readlink(path): whatever the content store holds at path.
readlink(path) ==
  LET r == traverse_tdata(data, path)
  IN /\ UNCHANGED <<impl, fd, files>>
     /\ data' = r.st
     /\ IF Raised(r)
          THEN last' = Call("readlink", path, <<>>, <<>>, 0, 0, 0, r.raised)
          ELSE last' = Call("readlink", path, <<>>, <<>>, 0, 0, r.val, "none")

\* readdir(path): '.', '..' and the child names (in no modelled order).
readdir(path) ==
  LET p == traverse(files, path)
  IN /\ UNCHANGED <<impl, fd, files, data>>
     /\ IF Raised(p) \/ ~IsDirNode(p)
          THEN last' = Call("readdir", path, <<>>, <<>>, 0, 0, 0, "KeyError")
          ELSE last' = Call("readdir", path, <<>>, <<>>, 0, 0,
                            {".", ".."} \cup {n \in Names : Has(p.files[n])},
                            "none")

\* chmod(path, mode), for mode below 0o10000
chmod(path, mode) ==
  LET p == traverse(files, path)
  IN /\ UNCHANGED <<impl, fd, data>>
     /\ IF Raised(p)
          THEN /\ files' = files
               /\ last' = Call("chmod", path, <<>>, <<>>, 0, mode, 0,
                               "KeyError")
          ELSE /\ files' = SetNode(files, path,
                             [p EXCEPT !.st_mode = FileType(@) + mode])
               /\ last' = Call("chmod", path, <<>>, <<>>, 0, mode, 0, "none")

\* p[key] = value on a dict p that may lack the key.
SetKey(p, key, value) ==
  [k \in DOMAIN p \cup {key} |-> IF k = key THEN value ELSE p[k]]

\* chown(path, uid, gid)
chown(path, uid, gid) ==
  LET p == traverse(files, path)
  IN /\ UNCHANGED <<impl, fd, data>>
     /\ IF Raised(p)
          THEN /\ files' = files
               /\ last' = Call("chown", path, <<>>, <<>>, uid, gid, 0,
                               "KeyError")
          ELSE /\ files' = SetNode(files, path,
                             SetKey(SetKey(p, "st_uid", uid), "st_gid", gid))
               /\ last' = Call("chown", path, <<>>, <<>>, uid, gid, 0, "none")

\* utimens(path, times): times is <<atime, mtime>>, or <<>> for None.
utimens(path, times, now) ==
  LET p == traverse(files, path)
      atime == IF times = <<>> THEN now ELSE times[1]
      mtime == IF times = <<>> THEN now ELSE times[2]
  IN /\ UNCHANGED <<impl, fd, data>>
     /\ IF Raised(p)
          THEN /\ files' = files
               /\ last' = Call("utimens", path, <<>>, times, 0, 0, 0,
                               "KeyError")
          ELSE /\ files' = SetNode(files, path,
                             SetKey(SetKey(p, "st_atime", atime),
                                    "st_mtime", mtime))
               /\ last' = Call("utimens", path, <<>>, times, 0, 0, 0, "none")

(***************************************************************************)
(* Extended attributes: the dict under the key 'attrs', a function over    *)
(* XNames whose absent names hold NoKey and whose set names hold XVal(v).  *)
(***************************************************************************)
XNames == {"x"}
XValues == {<<5>>}
XVal(v) == [xval |-> v]
NoAttrs == [n \in XNames |-> NoKey]

\* p.get('attrs', {})
GetAttrs(p) == IF "attrs" \in DOMAIN p THEN p.attrs ELSE NoAttrs

getxattr(path, name) ==
  LET p == traverse(files, path)
      attrs == GetAttrs(p)
  IN /\ UNCHANGED <<impl, fd, files, data>>
     /\ IF Raised(p)
          THEN last' = Call("getxattr", path, <<name>>, <<>>, 0, 0, 0,
                            "KeyError")
          ELSE last' = Call("getxattr", path, <<name>>, <<>>, 0, 0,
                            IF Has(attrs[name]) THEN attrs[name].xval
                            ELSE <<>>,
                            "none")

listxattr(path) ==
  LET p == traverse(files, path)
      attrs == GetAttrs(p)
  IN /\ UNCHANGED <<impl, fd, files, data>>
     /\ IF Raised(p)
          THEN last' = Call("listxattr", path, <<>>, <<>>, 0, 0, 0,
                            "KeyError")
          ELSE last' = Call("listxattr", path, <<>>, <<>>, 0, 0,
                            {n \in XNames : Has(attrs[n])}, "none")

setxattr(path, name, value) ==
  LET p == traverse(files, path)
      attrs == GetAttrs(p)
  IN /\ UNCHANGED <<impl, fd, data>>
     /\ IF Raised(p)
          THEN /\ files' = files
               /\ last' = Call("setxattr", path, <<name>>, value, 0, 0, 0,
                               "KeyError")
          ELSE /\ files' = SetNode(files, path,
                             SetKey(p, "attrs",
                                    [attrs EXCEPT ![name] = XVal(value)]))
               /\ last' = Call("setxattr", path, <<name>>, value, 0, 0, 0,
                               "none")

\* del attrs[name]; a KeyError is passed over.  Without the key 'attrs' the
\* dict is a temporary and the node is left as it is.
\* removexattr that reports the missing name, as the comment of line 159
\* says it should.
removexattr_enoattr(path, name) ==
  LET p == traverse(files, path)
  IN /\ UNCHANGED <<impl, fd, data>>
     /\ IF Raised(p)
          THEN /\ files' = files
               /\ last' = Call("removexattr", path, <<name>>, <<>>, 0, 0, 0,
                               "KeyError")
        ELSE IF ~Has(GetAttrs(p)[name])
          THEN /\ files' = files
               /\ last' = Call("removexattr", path, <<name>>, <<>>, 0, 0, 0,
                               "ENOATTR")
        ELSE /\ files' = SetNode(files, path, [p EXCEPT !.attrs[name] = NoKey])
             /\ last' = Call("removexattr", path, <<name>>, <<>>, 0, 0, 0,
                             "none")

removexattr(path, name) ==
  LET p == traverse(files, path)
  IN /\ UNCHANGED <<impl, fd, data>>
     /\ IF Raised(p)
          THEN /\ files' = files
               /\ last' = Call("removexattr", path, <<name>>, <<>>, 0, 0, 0,
                               "KeyError")
          ELSE /\ files' = IF "attrs" \in DOMAIN p
                             THEN SetNode(files, path,
                                    [p EXCEPT !.attrs[name] = NoKey])
                           ELSE files
               /\ last' = Call("removexattr", path, <<name>>, <<>>, 0, 0, 0,
                               "none")

\* open(path, flags): the path is not looked at.
open(path) ==
  /\ fd < MaxFd
  /\ UNCHANGED <<impl, files, data>>
  /\ fd' = fd + 1
  /\ last' = Call("open", path, <<>>, <<>>, 0, 0, fd + 1, "none")

\* statfs(path)
statfs(path) ==
  /\ UNCHANGED <<impl, fd, files, data>>
  /\ last' = Call("statfs", path, <<>>, <<>>, 0, 0,
                  [f_bsize |-> 512, f_blocks |-> 4096, f_bavail |-> 2048],
                  "none")

(***************************************************************************)
(* Content operations on the files of the root directory.                  *)
(***************************************************************************)
IOPaths == {<<"a">>}

Create == \E path \in IOPaths, mode \in Modes, now \in Times :
            create(path, mode, now)
Write == \E path \in IOPaths, wdata \in Datas, offset \in Offsets :
           write(path, wdata, offset)
Read == \E path \in IOPaths, size \in Sizes, offset \in Offsets :
          read(path, size, offset)
Truncate == \E path \in IOPaths, length \in Offsets : truncate(path, length)

NextIO == Create \/ Write \/ Read \/ Truncate

SpecIO == Init /\ [][NextIO]_vars

(***************************************************************************)
(* Namespace operations on every path of depth one and two.                *)
(***************************************************************************)
Sources == {<<8, 9>>}
NSPaths == {<<"a">>, <<"b">>, <<"a", "b">>}

CreateNS == \E path \in NSPaths, mode \in Modes, now \in Times :
              create(path, mode, now)
Mkdir == \E path \in NSPaths, mode \in Modes, now \in Times :
           mkdir(path, mode, now)
Rmdir == \E path \in NSPaths : rmdir(path)
Unlink == \E path \in NSPaths : unlink(path)
Rename == \E old \in NSPaths, new \in NSPaths : rename(old, new)

NextNS == CreateNS \/ Mkdir \/ Rmdir \/ Unlink \/ Rename

SpecNS == InitBlock /\ [][NextNS]_vars

(***************************************************************************)
(* Directories made, filled, emptied and removed: create, mkdir, rmdir and *)
(* unlink on three paths.                                                  *)
(***************************************************************************)
NextDir == CreateNS \/ Mkdir \/ Rmdir \/ Unlink

SpecDir == InitBlock /\ [][NextDir]_vars

(***************************************************************************)
(* The life of one file: create, write, read, truncate and unlink on the   *)
(* files of the root directory, under both classes.                        *)
(***************************************************************************)
UnlinkIO == \E path \in IOPaths : unlink(path)

NextLife == Create \/ Write \/ Read \/ Truncate \/ UnlinkIO

SpecLife == Init /\ [][NextLife]_vars

(***************************************************************************)
(* Symbolic links: symlink, readlink and rename on three paths, with two   *)
(* link texts of different length, and mkdir of the one parent directory.  *)
(***************************************************************************)
LinkSources == {<<7>>, <<8, 9>>}
LinkParents == {<<"a">>}

MkdirL == \E path \in LinkParents, mode \in Modes, now \in Times :
            mkdir(path, mode, now)
SymlinkL == \E target \in NSPaths, source \in LinkSources :
              symlink(target, source)
ReadlinkL == \E path \in NSPaths : readlink(path)
RenameL == \E old \in NSPaths, new \in NSPaths : rename(old, new)

NextLink == MkdirL \/ SymlinkL \/ ReadlinkL \/ RenameL

SpecLink == InitBlock /\ [][NextLink]_vars

(***************************************************************************)
(* Lookups on a path of depth one and one of depth two, over the nodes     *)
(* create, mkdir and symlink put there; metadata updates on the path of    *)
(* depth one, present or not.                                              *)
(***************************************************************************)
MetaPaths == {<<"a">>, <<"a", "b">>}
UpdatePaths == {<<"a">>}
ChModes == {384}
Ids == {1000}
TimesArgs == {<<>>, <<2, 3>>}

CreateM == \E path \in MetaPaths, mode \in Modes, now \in Times :
             create(path, mode, now)
MkdirM == \E path \in MetaPaths, mode \in Modes, now \in Times :
            mkdir(path, mode, now)
SymlinkM == \E target \in MetaPaths, source \in Sources :
              symlink(target, source)
Getattr == \E path \in MetaPaths : getattr(path)
Readlink == \E path \in MetaPaths : readlink(path)
Readdir == \E path \in MetaPaths : readdir(path)
Chmod == \E path \in UpdatePaths, mode \in ChModes : chmod(path, mode)
Chown == \E path \in UpdatePaths, uid \in Ids, gid \in Ids :
           chown(path, uid, gid)
Utimens == \E path \in UpdatePaths, times \in TimesArgs, now \in Times :
             utimens(path, times, now)
Getxattr == \E path \in MetaPaths, name \in XNames : getxattr(path, name)
Listxattr == \E path \in MetaPaths : listxattr(path)
Setxattr == \E path \in UpdatePaths, name \in XNames, value \in XValues :
              setxattr(path, name, value)
Removexattr == \E path \in UpdatePaths, name \in XNames :
                 removexattr(path, name)
Open == \E path \in UpdatePaths : open(path)
Statfs == \E path \in UpdatePaths : statfs(path)

NextMeta ==
  \/ CreateM \/ MkdirM \/ SymlinkM \/ Getattr \/ Readlink \/ Readdir
  \/ Chmod \/ Chown \/ Utimens \/ Getxattr \/ Listxattr \/ Setxattr
  \/ Removexattr \/ Open \/ Statfs

SpecMeta == InitBlock /\ [][NextMeta]_vars

(***************************************************************************)
(* Observation of a state: what a path names, without changing anything.   *)
(***************************************************************************)
\* The node at path in the tree f is a regular file.
IsReg(f, path) ==
  LET p == traverse(f, path)
  IN ~Raised(p) /\ "st_mode" \in DOMAIN p /\ FileType(p.st_mode) = S_IFREG

\* The logical content at path in the store d: the bytes a store value
\* holds, nothing when there is no content entry.
ContentAt(d, path) ==
  LET v == Peek(d, path)
  IN IF IsList(v) \/ IsStr(v) THEN Logical(v) ELSE <<>>

Zeros(n) == [i \in 1..n |-> 0]

\* The latest call acted on a path that named a regular file when it began.
OnReg(op) == last.op = op /\ IsReg(last.pfiles, last.path)

\* The content of that file before and after the call.
Before == ContentAt(last.pdata, last.path)
After == ContentAt(data, last.path)

(***************************************************************************)
(* C1.  Every regular file's st_size equals the length of its logical      *)
(* content, in every state create, write and truncate lead to.             *)
(***************************************************************************)
C1_SizeIsContentLength ==
  \A path \in Paths :
    IsReg(files, path) =>
      traverse(files, path).st_size = Len(ContentAt(data, path))

(***************************************************************************)
(* C2.  write(path, data, offset) with offset <= len(buffer) on a regular  *)
(* file leaves buffer[0:offset] + data + buffer[offset+len(data):] and     *)
(* returns len(data).                                                      *)
(***************************************************************************)
C2_WriteIsOverwriteSplice ==
  (OnReg("write") /\ last.offset <= Len(Before)) =>
    /\ last.err = "none"
    /\ last.ret = Len(last.wdata)
    /\ After = Slice(Before, 0, last.offset) \o last.wdata
                 \o SliceFrom(Before, last.offset + Len(last.wdata))

(***************************************************************************)
(* C3.  In hierarchicalBlockFS.py read(path, size, offset) on a regular    *)
(* file never raises and returns the bytes [offset, offset+size) of the    *)
(* logical content clipped to its length (empty when offset >= total).     *)
(***************************************************************************)
C3_ReadIsLogicalRange ==
  (OnReg("read") /\ impl = "block") =>
    /\ last.err = "none"
    /\ last.ret = Slice(Before, last.offset, last.offset + last.size)

(***************************************************************************)
(* C4.  Round trip: write(path, d, o) on a regular file followed           *)
(* immediately by read(path, len(d), o) returns exactly d.                 *)
(***************************************************************************)
C4_WriteThenReadRoundTrip ==
  [][(/\ OnReg("write")
      /\ last'.op = "read"
      /\ last'.path = last.path
      /\ last'.offset = last.offset
      /\ last'.size = Len(last.wdata))
     => (/\ last.err = "none"
         /\ last'.err = "none"
         /\ last'.ret = last.wdata)]_vars

(***************************************************************************)
(* C5.  Truncate shrink: truncate(path, length) with length < len(buffer)  *)
(* leaves size length and content buffer[0:length], which                  *)
(* read(path, length, 0) returns.                                          *)
(***************************************************************************)
C5_TruncateShrinkKeepsPrefix ==
  (OnReg("truncate") /\ last.offset < Len(Before)) =>
    /\ last.err = "none"
    /\ traverse(files, last.path).st_size = last.offset
    /\ After = Slice(Before, 0, last.offset)
    /\ read_value(Peek(data, last.path), last.offset, 0)
         = Ok(Slice(Before, 0, last.offset))

(***************************************************************************)
(* C6.  Truncate grow: truncate(path, length) with length > len(buffer)    *)
(* does not raise and leaves size length and content buffer followed by    *)
(* length - len(buffer) zero bytes.                                        *)
(***************************************************************************)
C6_TruncateGrowZeroFills ==
  (OnReg("truncate") /\ last.offset > Len(Before)) =>
    /\ last.err = "none"
    /\ traverse(files, last.path).st_size = last.offset
    /\ After = Before \o Zeros(last.offset - Len(Before))

(***************************************************************************)
(* C7.  Write past the end: write(path, data, offset) with                 *)
(* offset > len(buffer) does not raise and leaves buffer, then             *)
(* offset - len(buffer) zero bytes, then data, with size                   *)
(* offset + len(data).                                                     *)
(***************************************************************************)
C7_WritePastEndZeroFills ==
  (OnReg("write") /\ last.offset > Len(Before)) =>
    /\ last.err = "none"
    /\ After = Before \o Zeros(last.offset - Len(Before)) \o last.wdata
    /\ traverse(files, last.path).st_size = last.offset + Len(last.wdata)

\* Every directory of the tree p has link count 2 plus the number of its
\* direct children that are directories.
RECURSIVE LinkCountsOK(_)
LinkCountsOK(p) ==
  IsDirNode(p) =>
    LET kids == {n \in Names : Has(p.files[n])}
        dirs == {n \in kids : IsDirNode(p.files[n])}
    IN /\ p.st_nlink = 2 + Cardinality(dirs)
       /\ \A n \in dirs : LinkCountsOK(p.files[n])

(***************************************************************************)
(* C8.  In every state reached by successful or failed create, mkdir,      *)
(* rmdir, unlink and rename calls (calls on a name that already exists     *)
(* and unlink of a directory among them), every directory's st_nlink is 2  *)
(* plus the number of its direct children that are directories.            *)
(***************************************************************************)
C8_DirLinkCount == LinkCountsOK(files)

(***************************************************************************)
(* C9.  Failure atomicity: after a call that raised, the tree self.files   *)
(* and the store self.data are what they were before the call.             *)
(***************************************************************************)
C9_FailureLeavesStateUnchanged ==
  last.err # "none" => (files = last.pfiles /\ data = last.pdata)

\* The operations that resolve the whole of their path, and those that
\* resolve its parent.
ResolvesPath ==
  {"getattr", "read", "write", "truncate", "readlink", "readdir", "chmod",
   "chown", "utimens", "getxattr", "listxattr", "setxattr", "removexattr",
   "rmdir", "unlink", "rename"}
ResolvesParent == {"create", "mkdir", "symlink"}

\* The latest call had to resolve a path with a component that was absent,
\* or below a node that was not a directory, when the call began.
Unresolvable ==
  \/ last.op \in ResolvesPath /\ Raised(traverse(last.pfiles, last.path))
  \/ /\ last.op \in ResolvesParent
     /\ Raised(traverse(last.pfiles, Front(last.path)))

(***************************************************************************)
(* C10.  An operation that resolves a path with an absent component, or    *)
(* with an intermediate component that is not a directory, fails with      *)
(* ENOENT.                                                                 *)
(***************************************************************************)
C10_MissingComponentIsENOENT == Unresolvable => last.err = "ENOENT"

\* The node the latest call's path named when the call began, and its
\* parent then and now.
PreNode == traverse(last.pfiles, last.path)
PreParent == traverse(last.pfiles, Front(last.path))
PostParent == traverse(files, Front(last.path))

\* The latest call was rmdir on a path that named a directory.
RmdirOnDir == last.op = "rmdir" /\ IsDirNode(PreNode)

(***************************************************************************)
(* C11.  rmdir on a directory with at least one child fails with           *)
(* ENOTEMPTY and changes nothing; rmdir on a directory with no children    *)
(* succeeds, removes the entry from its parent, leaves the parent's other  *)
(* entries alone and lowers the parent's st_nlink by exactly 1.            *)
(***************************************************************************)
C11_RmdirEmptinessGate ==
  RmdirOnDir =>
    IF DictLen(PreNode.files) > 0
      THEN /\ last.err = "ENOTEMPTY"
           /\ files = last.pfiles
           /\ data = last.pdata
      ELSE /\ last.err = "none"
           /\ Raised(traverse(files, last.path))
           /\ PostParent.st_nlink = PreParent.st_nlink - 1
           /\ \A n \in Names \ {Last(last.path)} :
                PostParent.files[n] = PreParent.files[n]

\* C11 witness: rmdir removed a directory that had held a child directory
\* (its st_nlink was 3) and was emptied again by unlink.
C11_Witness ==
  /\ RmdirOnDir
  /\ last.err = "none"
  /\ PreNode.st_nlink = 3
  /\ DictLen(PreNode.files) = 0
  /\ Raised(traverse(files, last.path))

\* C11 witness of the refusal: rmdir on a directory that holds a child.
C11_WitnessNotEmpty ==
  RmdirOnDir /\ DictLen(PreNode.files) > 0 /\ last.err = "ENOTEMPTY"

\* The latest call was rename(old, new), old # new, of a regular file to a
\* name whose parent directory existed.
RenameOfFile ==
  /\ last.op = "rename"
  /\ last.path # last.new
  /\ IsReg(last.pfiles, last.path)
  /\ IsDirNode(traverse(last.pfiles, Front(last.new)))

(***************************************************************************)
(* C12.  rename(old, new) of an existing regular file, written or not, to  *)
(* a path whose parent directory exists succeeds; afterwards old does not  *)
(* resolve and new resolves to a node with the metadata, extended          *)
(* attributes, size and content the file had at old.                       *)
(***************************************************************************)
C12_RenameFilePreserves ==
  RenameOfFile =>
    /\ last.err = "none"
    /\ Raised(traverse(files, last.path))
    /\ traverse(files, last.new) = PreNode
    /\ ContentAt(data, last.new) = ContentAt(last.pdata, last.path)

\* The latest call was a rename(old, new), old # new, that returned.
RenameDone ==
  /\ last.op = "rename"
  /\ last.err = "none"
  /\ last.path # last.new
  /\ ~Raised(PreNode)

\* st_nlink of the node at path in the tree f; -1 when path does not resolve.
NlinkAt(f, path) ==
  LET p == traverse(f, path)
  IN IF Raised(p) THEN -1 ELSE p.st_nlink

(***************************************************************************)
(* C13.  A rename that moves a directory between two different parent     *)
(* directories lowers the old parent's st_nlink by exactly 1, raises the   *)
(* new parent's by exactly 1 and leaves the moved directory's own          *)
(* st_nlink and children as they were; with one and the same parent the    *)
(* parent's st_nlink is unchanged; when the moved node is a file or a      *)
(* symlink no link count changes.                                          *)
(***************************************************************************)
C13_RenameLinkCounts ==
  RenameDone =>
    IF IsDirNode(PreNode)
      THEN /\ traverse(files, last.new) = PreNode
           /\ IF Front(last.path) # Front(last.new)
                THEN /\ NlinkAt(files, Front(last.path))
                          = NlinkAt(last.pfiles, Front(last.path)) - 1
                     /\ NlinkAt(files, Front(last.new))
                          = NlinkAt(last.pfiles, Front(last.new)) + 1
                ELSE NlinkAt(files, Front(last.path))
                       = NlinkAt(last.pfiles, Front(last.path))
      ELSE /\ NlinkAt(files, last.new) = PreNode.st_nlink
           /\ \A q \in AllPaths :
                IsDirNode(traverse(files, q)) =>
                  NlinkAt(files, q) = NlinkAt(last.pfiles, q)

(***************************************************************************)
(* C14.  After every create(path) that returned, in every history (after   *)
(* write, unlink and create again, or create over an existing file), the   *)
(* file at path has st_size 0 and empty logical content.                   *)
(***************************************************************************)
C14_CreateStartsEmpty ==
  (last.op = "create" /\ last.err = "none") =>
    /\ traverse(files, last.path).st_size = 0
    /\ After = <<>>

\* The value of the extended attribute name of the node at path in the tree
\* f: XVal(v), or NoKey when the path does not resolve or the name is unset.
XattrAt(f, path, name) ==
  LET p == traverse(f, path)
  IN IF Raised(p) THEN NoKey ELSE GetAttrs(p)[name]

\* The latest call was the extended-attribute operation op on a path that
\* named a node.
OnNode(op) == last.op = op /\ ~Raised(PreNode)

\* What the latest call, if it was an extended-attribute call on an existing
\* node, owes: removexattr of an unset name changes nothing and raises
\* nothing, getxattr returns the value set or the empty value, and setxattr
\* leaves the value set.
XattrCallOK ==
  LET was == XattrAt(last.pfiles, last.path, last.new[1])
  IN /\ (OnNode("removexattr") /\ ~Has(was)) =>
          (last.err = "none" /\ files = last.pfiles /\ data = last.pdata)
     /\ OnNode("getxattr") =>
          /\ last.err = "none"
          /\ last.ret = IF Has(was) THEN was.xval ELSE <<>>
     /\ OnNode("setxattr") =>
          /\ last.err = "none"
          /\ XattrAt(files, last.path, last.new[1]) = XVal(last.wdata)

\* A step keeps every set attribute of every node, unless it removes or sets
\* that name on that path or puts a new node at the path.
XattrKept ==
  \A path \in MetaPaths, name \in XNames :
    LET was == XattrAt(files, path, name)
        touches == /\ last'.op \in {"setxattr", "removexattr"}
                   /\ last'.path = path
                   /\ last'.new = <<name>>
        replaces == /\ last'.op \in {"create", "mkdir", "symlink"}
                    /\ IsPrefix(last'.path, path)
    IN (Has(was) /\ ~touches /\ ~replaces) =>
         XattrAt(files', path, name) = was

IsLink(f, path) ==
  LET p == traverse(f, path)
  IN ~Raised(p) /\ ~IsDirNode(p) /\ FileType(p.st_mode) = S_IFLNK

\* What the latest call, if it was a symlink below an existing directory or
\* a readlink of a link, owes: symlink raises nothing, leaves a link node
\* with st_nlink 1 and st_size len(source), the parent's st_nlink as it was
\* and the text source in the store; readlink returns the text in the store.
LinkCallOK ==
  /\ (last.op = "symlink" /\ IsDirNode(PreParent)) =>
       /\ last.err = "none"
       /\ IsLink(files, last.path)
       /\ traverse(files, last.path).st_nlink = 1
       /\ traverse(files, last.path).st_size = Len(last.wdata)
       /\ PostParent.st_nlink = PreParent.st_nlink
       /\ Peek(data, last.path) = Str(last.wdata)
  /\ (last.op = "readlink" /\ IsLink(last.pfiles, last.path)) =>
       /\ last.err = "none"
       /\ last.ret = Peek(last.pdata, last.path)

\* A step keeps the text of every link: a rename of the link that returns
\* takes the text to the new path, and a step that is no mkdir, symlink or
\* rename on the link's path or on a directory above it leaves link and
\* text where they are.
LinkTextKept ==
  \A path \in Paths :
    IsLink(files, path) =>
      IF /\ last'.op = "rename" /\ last'.err = "none"
         /\ last'.path = path /\ last'.new # path
        THEN /\ IsLink(files', last'.new)
             /\ traverse(files', last'.new).st_size
                  = traverse(files, path).st_size
             /\ Peek(data', last'.new) = Peek(data, path)
             /\ ~IsLink(files', path)
      ELSE IF /\ last'.op \in {"mkdir", "symlink", "rename"}
              /\ \/ IsPrefix(last'.path, path)
                 \/ last'.op = "rename" /\ IsPrefix(last'.new, path)
        THEN TRUE
      ELSE /\ IsLink(files', path)
           /\ traverse(files', path).st_size = traverse(files, path).st_size
           /\ Peek(data', path) = Peek(data, path)

(***************************************************************************)
(* C16.  symlink(target, source) below an existing directory leaves a      *)
(* link node at target with st_nlink 1 and st_size len(source) and the     *)
(* parent's st_nlink as it was; a following readlink(target) returns       *)
(* source, and so does readlink of the new path after the link was         *)
(* renamed.                                                                *)
(***************************************************************************)
C16_SymlinkReadlink == [][LinkCallOK' /\ LinkTextKept]_vars

\* C16 witness: readlink returned the text of a link inside the directory.
C16_Witness ==
  /\ last.op = "readlink"
  /\ last.path = <<"a", "b">>
  /\ IsLink(last.pfiles, last.path)
  /\ last.ret = Str(<<8, 9>>)
  /\ last.err = "none"

\* Every chunk of the list d but the last holds BLOCKSIZE bytes, the last
\* at most BLOCKSIZE.
ShapeOK(d) ==
  \A i \in 1..Len(d) :
    IF i < Len(d) THEN Len(d[i]) = BLOCKSIZE ELSE Len(d[i]) <= BLOCKSIZE

(***************************************************************************)
(* C17.  In hierarchicalBlockFS.py, in every state create, write and       *)
(* truncate lead to, every chunk of every file except the last has exactly *)
(* BLOCKSIZE bytes and the last has at most BLOCKSIZE.                     *)
(***************************************************************************)
C17_ChunkShape ==
  impl = "block" =>
    \A path \in Paths :
      IsList(Peek(data, path)) => ShapeOK(Peek(data, path).chunks)

\* C17 witness: a truncate returned on a file of a full chunk followed by a
\* shorter, non-empty last chunk.
C17_Witness ==
  /\ impl = "block"
  /\ OnReg("truncate")
  /\ last.err = "none"
  /\ IsList(Peek(data, last.path))
  /\ Len(Peek(data, last.path).chunks) = 2
  /\ Len(Peek(data, last.path).chunks[1]) = BLOCKSIZE
  /\ Len(Peek(data, last.path).chunks[2]) \in 1..(BLOCKSIZE - 1)

\* The latest call was truncate, under hierarchicalBlockFS.py, on a regular
\* file whose chunk list had been produced by a write.
TruncateOfWritten ==
  /\ impl = "block"
  /\ OnReg("truncate")
  /\ IsList(Peek(last.pdata, last.path))
  /\ Len(Peek(last.pdata, last.path).chunks) > 0

(***************************************************************************)
(* C18.  In hierarchicalBlockFS.py, truncate(path, length) on a regular    *)
(* file whose chunk list was produced by writes, returning or raising,     *)
(* leaves the concatenation of the chunks as it was; all it can change is  *)
(* the file's st_size.                                                     *)
(***************************************************************************)
C18_TruncateKeepsContent ==
  TruncateOfWritten =>
    /\ After = Before
    /\ data = last.pdata
    /\ files = SetNode(last.pfiles, last.path,
                 [PreNode EXCEPT !.st_size = traverse(files, last.path).st_size])

\* C18 witness: a truncate to a length below the content length returned and
\* the content is what it was.
C18_Witness ==
  /\ TruncateOfWritten
  /\ last.err = "none"
  /\ last.offset < Len(Before)
  /\ After = Before
  /\ traverse(files, last.path).st_size # PreNode.st_size

\* The latest call was write, under hierarchicalBlockFS.py, on a regular
\* file.
BlockWrite == impl = "block" /\ OnReg("write")

(***************************************************************************)
(* C19.  In hierarchicalBlockFS.py, after write(path, data, offset) on a   *)
(* regular file with non-empty content buffer, returning or raising, the   *)
(* first min(offset, len(buffer)) bytes of the content are those of        *)
(* buffer.                                                                 *)
(***************************************************************************)
C19_WriteKeepsPrefix ==
  (BlockWrite /\ Len(Before) > 0) =>
    LET n == Min(last.offset, Len(Before))
    IN /\ Len(After) >= n
       /\ Slice(After, 0, n) = Slice(Before, 0, n)

\* C19 witness: a write at an offset past the first chunk and inside the
\* content returned, and the content changed.
C19_Witness ==
  /\ BlockWrite
  /\ last.err = "none"
  /\ last.offset >= BLOCKSIZE
  /\ last.offset < Len(Before)
  /\ Len(last.wdata) > 0
  /\ After # Before

\* The chunk list at the latest call's path was empty, or not there, when
\* the call began.
NeverWritten ==
  LET v == Peek(last.pdata, last.path)
  IN ~Has(v) \/ v = List(<<>>)

(***************************************************************************)
(* C20.  In hierarchicalBlockFS.py, write(path, data, offset) on a file    *)
(* whose chunk list is empty ignores offset: it returns len(data), the     *)
(* content is data from byte 0, st_size is len(data) and the list has      *)
(* floor(len(data) / BLOCKSIZE) + 1 chunks.                                *)
(***************************************************************************)
C20_FirstWriteIgnoresOffset ==
  (BlockWrite /\ NeverWritten) =>
    /\ last.err = "none"
    /\ last.ret = Len(last.wdata)
    /\ After = last.wdata
    /\ traverse(files, last.path).st_size = Len(last.wdata)
    /\ Len(Peek(data, last.path).chunks) = Len(last.wdata) \div BLOCKSIZE + 1

\* C20 witness: a first write of a full chunk of data at an offset above 0
\* returned.
C20_Witness ==
  /\ BlockWrite
  /\ NeverWritten
  /\ last.offset > 0
  /\ Len(last.wdata) = BLOCKSIZE
  /\ last.err = "none"
  /\ After = last.wdata

====
